---- MODULE Spec2Model ----
(***************************************************************************)
(* A model of exorde_reddit.py: the listing pagination of                  *)
(* RedditScrapper.search, the detail pagination of                         *)
(* RedditScrapper.search_comments, and the decorators with_page,           *)
(* with_semaphore, retry and stop_raise that wrap them.                    *)
(*                                                                         *)
(* The program runs on one asyncio event loop.  A step of the model is the *)
(* code one coroutine runs between two suspension points (awaits); the     *)
(* event loop picks which ready coroutine runs next.  The browser is the   *)
(* environment: what a page exposes, and whether a page action succeeds or *)
(* raises, are nondeterministic choices.                                   *)
(***************************************************************************)
EXTENDS Integers, Sequences, FiniteSets, TLC

(* ---------------------------- bounds ----------------------------------- *)
\* Length of the list of raw post elements the search page can expose.
MaxRawPosts == 3
\* Length of the list of raw comment elements a post page can expose.
MaxRawComments == 3

\* Number of words of the timezone name that ends a timestamp.
MaxTrailing == 4

(* ------------------------ program constants ---------------------------- *)
SCROLL_TRIES == 3
MAX_CONCURRENT_TASK == 1
\* retry(logger=self.logger, max_attempts=3)
max_attempts == 3

None == "None"
\* The exceptions of the model: a page action that fails or times out, and
\* what parse_post / parse_comment raise.
SurfaceError == "SurfaceError"
ParseError == "ParseError"
\* An optional record: <<>> is Python's None, <<r>> is the object r.
Nothing == <<>>
Some(r) == <<r>>

(* ------------------------- raw records --------------------------------- *)
\* A raw post element: its id attribute (a string, here a sequence of
\* characters) and the text of its subreddit link.
RawPostPool ==
    << [id |-> <<"t", "3", "_", "a">>,      subreddit |-> "r/y"],
       [id |-> <<"t", "3", "_", "b">>,      subreddit |-> "r/x"],
       [id |-> <<"t", "3", "_", "a">>,      subreddit |-> "r/x"],
       [id |-> <<"t", "3", "_", "3", "a">>, subreddit |-> "r/x"] >>

\* A raw comment element: its id attribute.
RawCommentPool ==
    << [id |-> <<"t", "1", "_", "a">>],
       [id |-> <<"t", "1", "_", "b">>],
       [id |-> <<"t", "1", "_", "1", "a">>] >>

\* The element list a page may hold: the pool, read cyclically from some
\* offset.  A page exposes a growing prefix of its list (append-only surface).
Feed(pool, shift, n) ==
    [i \in 1..n |-> pool[((i + shift - 1) % Len(pool)) + 1]]

\* The sites a run is checked against: what the search page lists and what
\* every post page lists.  Either a list of posts with a single comment each,
\* or a single post with a list of comments.
Sites ==
    {[posts |-> Feed(RawPostPool, s, MaxRawPosts),
      comments |-> <<Head(RawCommentPool)>>] : s \in {0, 1}}
    \cup
    {[posts |-> <<Head(RawPostPool)>>,
      comments |-> Feed(RawCommentPool, s, MaxRawComments)] : s \in {0, 1, 2}}

BlankPage == [feed |-> <<>>, shown |-> 0]

(* ------------------------- pure helpers -------------------------------- *)
\* str.lstrip(chars): drop leading characters while they belong to chars.
RECURSIVE lstrip(_, _)
lstrip(s, chars) ==
    IF s # <<>> /\ Head(s) \in chars THEN lstrip(Tail(s), chars) ELSE s

\* The slice seq[n:] of Python, as the sequence of the 1-based indices it keeps.
SliceFrom(n, len) == [k \in 1..(IF len > n THEN len - n ELSE 0) |-> n + k]

\* parse_post on a raw element whose page actions all succeed.
parse_post(raw, handle) ==
    [id |-> lstrip(raw.id, {"t", "3", "_"}),
     subreddit |-> raw.subreddit,
     comments |-> <<>>,
     handle |-> handle]

\* parse_comment on a raw element whose page actions all succeed.
parse_comment(raw, handle) ==
    [id |-> lstrip(raw.id, {"t", "1", "_"}), handle |-> handle]

PostKey(p) == <<p.subreddit, p.id>>

(* ----------------------------- state ----------------------------------- *)
VARIABLES
    site,             \* the site: what its search page and its post pages list
    page,             \* the search page: [feed, shown], shown = elements exposed so far
    spc,              \* where run/search is suspended
    posts,            \* search: posts
    post_ids,         \* search: post_ids
    tasks,            \* search: tasks, one record per created asyncio task
    have_new_posts,   \* search: have_new_posts
    tries,            \* search: tries
    element_handles,  \* search: the slice still to iterate (indices into the page's list)
    post,             \* search: post, the result of the last parse
    semaphore,        \* self.semaphore: its free slots
    result,           \* how search ended: None, a returned list, or a raised exception
    stalled,          \* history: listing iterations begun since the one that last accepted a post
    parsed,           \* history: composite keys of the raw posts parsed successfully
    listing_error,    \* history: a page action of the listing pass has raised
    scrolled,         \* history: search has scrolled an element into view since it last read the list
    slept,            \* history: search has slept since it last read the list
    open_pages,       \* self.browser: the number of its pages that are open
    value,            \* to_isoformat called on its own: its argument
    normalized        \* to_isoformat called on its own: what the call gave

\* The variables of a call of to_isoformat on its own.
timeVars == <<value, normalized>>

vars == <<site, page, spc, posts, post_ids, tasks, have_new_posts, tries,
          element_handles, post, semaphore, result, stalled, parsed, listing_error,
          scrolled, slept, open_pages, value, normalized>>

\* search has not finished / returned a list / raised the exception exc.
NoResult == [kind |-> "none", value |-> <<>>, exc |-> None]
Returned(list) == [kind |-> "return", value |-> list, exc |-> None]
Raised(e) == [kind |-> "raise", value |-> <<>>, exc |-> e]

\* The locals of search_comments before an attempt has navigated.  History:
\* stalled, scrolled and slept as for search, and timed_out, the await of
\* the attempt's last step that timed out: None, "page" (goto,
\* element_handles, scroll_into_view_if_needed) or "parse_comment" (hover,
\* wait_for_selector).
NoLocals ==
    [page |-> BlankPage, comments |-> <<>>, comment_ids |-> {},
     have_new_comments |-> TRUE, tries |-> 0, element_handles |-> <<>>,
     comment |-> Nothing, stalled |-> 0,
     scrolled |-> FALSE, slept |-> FALSE, timed_out |-> None]

\* The record of a task created by asyncio.create_task(coroutine(post=post)):
\* it has not run yet.  post is the index in posts of the post it was given.
\* History: assigned, the number of times the task has run
\* post.comments = comments.
NewTask(p) ==
    [post |-> p, pc |-> "waiting", attempt |-> 0, exc |-> None, assigned |-> 0] @@ NoLocals

Settled(t) == t.pc \in {"done", "failed"}

Init ==
    /\ site \in Sites
    /\ page = BlankPage
    /\ spc = "newpage"
    /\ posts = <<>>
    /\ post_ids = {}
    /\ tasks = <<>>
    /\ have_new_posts = TRUE
    /\ tries = 0
    /\ element_handles = <<>>
    /\ post = Nothing
    /\ semaphore = MAX_CONCURRENT_TASK
    /\ result = NoResult
    /\ stalled = 0
    /\ parsed = {}
    /\ listing_error = FALSE
    /\ scrolled = FALSE
    /\ slept = FALSE
    /\ open_pages = 0
    /\ value = <<>>
    /\ normalized = NoResult

(* ------------------------ decorators and tests ------------------------- *)
\* What awaiting a coroutine gives: a value, or an exception.
Value(v) == [exc |-> None, value |-> Some(v)]
Exc(e) == [exc |-> e, value |-> Nothing]

(* --------------------------- to_isoformat ------------------------------ *)
\* A string is the list of its whitespace-delimited tokens, which is what
\* str.split() gives.  A token has a kind, the directive of the pattern
\* "%a, %b %d, %Y, %I:%M:%S %p" it can match ("z" for a word of a timezone
\* name), and the numbers it spells.
Token(k, v) == [k |-> k, v |-> v]
Pattern == <<"a", "b", "d", "Y", "T", "p">>
AM == <<0>>
PM == <<1>>

\* The slice seq[:-n] of Python.
DropLast(s, n) == IF Len(s) > n THEN SubSeq(s, 1, Len(s) - n) ELSE <<>>

\* datetime.strptime(string, "%a, %b %d, %Y, %I:%M:%S %p"): the string must
\* match the whole pattern; %I is the hour of the 12-hour clock, which %p
\* turns into the hour of the day.
strptime(tokens) ==
    IF /\ Len(tokens) = Len(Pattern)
       /\ \A i \in 1..Len(Pattern) : tokens[i].k = Pattern[i]
    THEN LET hour == tokens[5].v[1]
             hour24 == IF tokens[6].v = PM
                       THEN (IF hour # 12 THEN hour + 12 ELSE hour)
                       ELSE (IF hour = 12 THEN 0 ELSE hour)
         IN  Value([year |-> tokens[4].v[1], month |-> tokens[2].v[1],
                    day |-> tokens[3].v[1], hour |-> hour24,
                    minute |-> tokens[5].v[2], second |-> tokens[5].v[3]])
    ELSE Exc(ParseError)

\* datetime.isoformat(): the fields of YYYY-MM-DDTHH:MM:SS, in that order.
isoformat(dt) == <<dt.year, dt.month, dt.day, dt.hour, dt.minute, dt.second>>

\* to_isoformat: the last three tokens are dropped, the rest is parsed.
to_isoformat_drops_one(string) ==
    LET dt == strptime(DropLast(string, 1))
    IN  IF dt.exc # None THEN dt ELSE Value(isoformat(dt.value[1]))
to_isoformat(string) ==
    LET dt == strptime(DropLast(string, 3))
    IN  IF dt.exc # None THEN dt ELSE Value(isoformat(dt.value[1]))

\* The six tokens of a timestamp, or the five of one whose time is missing.
Stamp(hour, minute, half, with_time) ==
    <<Token("a", <<1>>), Token("b", <<1>>), Token("d", <<1>>), Token("Y", <<2024>>)>>
    \o (IF with_time THEN <<Token("T", <<hour, minute, 0>>)>> ELSE <<>>)
    \o <<Token("p", half)>>

\* The strings to_isoformat is called on: a timestamp, whole or without its
\* time, followed by the words of a timezone name.
TimeStrings ==
    {Stamp(h, m, p, w) \o [i \in 1..n |-> Token("z", <<i>>)] :
        h \in 1..12, m \in {0, 30}, p \in {AM, PM}, w \in BOOLEAN, n \in 0..MaxTrailing}

\* parse_post awaited on a raw element: the post, or an exception: hover or
\* wait_for_selector timed out (SurfaceError), a sub-element is missing or
\* to_isoformat raised (ParseError).
ParsePostOutcomes(raw, handle) ==
    {Value(parse_post(raw, handle)), Exc(SurfaceError), Exc(ParseError)}
ParseCommentOutcomes(raw, handle) ==
    {Value(parse_comment(raw, handle)), Exc(SurfaceError), Exc(ParseError)}

\* stop_raise: the wrapped coroutine's exception is logged and None returned.
stop_raise_reraises(outcome) == outcome
stop_raise(outcome) ==
    IF outcome.exc # None THEN [exc |-> None, value |-> Nothing] ELSE outcome

\* The while condition of both pagination loops.
LoopContinues_off_by_one(have_new, n) == have_new \/ n <= SCROLL_TRIES
LoopContinues(have_new, n) == have_new \/ n < SCROLL_TRIES

\* The duplicate test of both pagination loops.
IsDuplicate_never(key, ids) == FALSE
IsDuplicate(key, ids) == key \in ids

\* tasks after asyncio.create_task for the post just appended at index p.
ScheduleTask_overwrites(ts, p) == <<NewTask(p)>>
ScheduleTask(ts, p) == Append(ts, NewTask(p))

\* The tasks search is suspended on while it paginates: create_task returns
\* at once, so none.
AwaitedInLoop_each(ts) == {t \in DOMAIN ts : ~Settled(ts[t])}
AwaitedInLoop(ts) == {}

(* --------------------------- run / search ------------------------------ *)
SearchLocals == <<posts, post_ids, tasks, have_new_posts, tries, element_handles,
                  post, stalled, parsed>>

\* An exception leaves search: with_page's finally is entered.
SearchRaises_retried(e) ==
    /\ UNCHANGED result
    /\ spc' = "goto"
SearchRaises(e) ==
    /\ result' = Raised(e)
    /\ spc' = "close"

\* with_page (run): page = await browser.new_page()
RunNewPage ==
    /\ spc = "newpage"
    /\ spc' = "goto"
    /\ open_pages' = open_pages + 1
    /\ UNCHANGED <<timeVars, site, scrolled, slept, page, SearchLocals, semaphore, result, listing_error>>

\* search: await page.goto(...), then the locals are set.
SearchGoto ==
    /\ spc = "goto"
    /\ \/ /\ spc' = "loop"
          /\ page' = [feed |-> site.posts, shown |-> 0]
          /\ UNCHANGED <<result, listing_error>>
       \/ /\ SearchRaises(SurfaceError)
          /\ listing_error' = TRUE
          /\ UNCHANGED page
    /\ UNCHANGED <<timeVars, site, open_pages, scrolled, slept, SearchLocals, semaphore>>

\* search: the loop condition holds; the head of the iteration runs up to
\* element_handles(), which returns the page's current list, and the slice
\* element_handles[len(posts):] is taken.
SearchIterate ==
    /\ spc = "loop"
    /\ AwaitedInLoop(tasks) = {}
    /\ LoopContinues(have_new_posts, tries)
    /\ \/ \E n \in page.shown..Len(page.feed) :
             /\ page' = [page EXCEPT !.shown = n]
             /\ have_new_posts' = FALSE
             /\ tries' = tries + 1
             /\ stalled' = stalled + 1
             /\ element_handles' = SliceFrom(Len(posts), n)
             /\ spc' = "elems"
             /\ scrolled' = FALSE
             /\ slept' = FALSE
             /\ UNCHANGED <<result, listing_error>>
       \/ /\ SearchRaises(SurfaceError)
          /\ listing_error' = TRUE
          /\ have_new_posts' = FALSE
          /\ tries' = tries + 1
          /\ stalled' = stalled + 1
          /\ UNCHANGED <<page, element_handles, scrolled, slept>>
    /\ UNCHANGED <<timeVars, site, open_pages, posts, post_ids, tasks, post, semaphore, parsed>>

\* search: one turn of the for loop: scroll the element into view, parse it
\* under stop_raise, then skip it or accept it and create its task.
SearchElement ==
    /\ spc = "elems"
    /\ AwaitedInLoop(tasks) = {}
    /\ element_handles # <<>>
    /\ LET handle == Head(element_handles)
           raw == page.feed[handle]
       IN \/ /\ SearchRaises(SurfaceError)
             /\ listing_error' = TRUE
             /\ UNCHANGED SearchLocals
          \/ \E outcome \in ParsePostOutcomes(raw, handle) :
               LET r == stop_raise(outcome) IN
               IF r.exc # None
               THEN /\ SearchRaises(r.exc)
                    /\ UNCHANGED <<SearchLocals, listing_error>>
               ELSE /\ post' = r.value
                    /\ element_handles' = Tail(element_handles)
                    /\ parsed' = parsed \cup {PostKey(p) : p \in {r.value[i] : i \in DOMAIN r.value}}
                    /\ UNCHANGED <<spc, result, listing_error>>
                    /\ IF r.value = Nothing \/ IsDuplicate(PostKey(r.value[1]), post_ids)
                       THEN UNCHANGED <<posts, post_ids, tasks, have_new_posts, tries, stalled>>
                       ELSE /\ tries' = 0
                            /\ stalled' = 0
                            /\ have_new_posts' = TRUE
                            /\ post_ids' = post_ids \cup {PostKey(r.value[1])}
                            /\ posts' = Append(posts, r.value[1])
                            /\ tasks' = ScheduleTask(tasks, Len(posts) + 1)
    /\ scrolled' = TRUE
    /\ UNCHANGED <<timeVars, site, open_pages, slept, page, semaphore>>

\* Whether an iteration sleeps before the while condition is tested again:
\* asyncio.sleep is awaited after the for loop, whatever the for loop did.
DelayElapsed_in_for_loop(has_scrolled) == has_scrolled
DelayElapsed(has_scrolled) == TRUE

\* search: the for loop is over; await asyncio.sleep(...), back to the while.
SearchSleep ==
    /\ spc = "elems"
    /\ AwaitedInLoop(tasks) = {}
    /\ element_handles = <<>>
    /\ spc' = "loop"
    /\ slept' = DelayElapsed(scrolled)
    /\ UNCHANGED <<timeVars, site, open_pages, scrolled, page, SearchLocals, semaphore, result, listing_error>>

\* search: the loop condition fails; "All posts loaded."
SearchLoopExit ==
    /\ spc = "loop"
    /\ AwaitedInLoop(tasks) = {}
    /\ ~LoopContinues(have_new_posts, tries)
    /\ spc' = "join"
    /\ UNCHANGED <<timeVars, site, open_pages, scrolled, slept, page, SearchLocals, semaphore, result, listing_error>>

\* asyncio.wait(tasks) returns once every task is done (ALL_COMPLETED), and
\* is not called for an empty list.
WaitReturns_first_completed(ts) == ts = <<>> \/ \E t \in DOMAIN ts : Settled(ts[t])
WaitReturns(ts) == \A t \in DOMAIN ts : Settled(ts[t])

\* What search does after the wait: asyncio.wait does not re-raise the
\* exceptions of the tasks, and search returns posts.
AfterWait_gather(ts, ps) ==
    IF \E t \in DOMAIN ts : ts[t].pc = "failed"
    THEN Raised(ts[CHOOSE t \in DOMAIN ts : ts[t].pc = "failed"].exc)
    ELSE Returned(ps)
AfterWait(ts, ps) == Returned(ps)

\* search: if tasks: await asyncio.wait(tasks); return posts
SearchJoin ==
    /\ spc = "join"
    /\ WaitReturns(tasks)
    /\ result' = AfterWait(tasks, posts)
    /\ spc' = "close"
    /\ UNCHANGED <<timeVars, site, open_pages, scrolled, slept, page, SearchLocals, semaphore, listing_error>>

\* with_page (run): finally: await page.close(); run ends as search ended.
RunClose ==
    /\ spc = "close"
    /\ spc' = "done"
    /\ open_pages' = open_pages - 1
    /\ UNCHANGED <<timeVars, site, scrolled, slept, page, SearchLocals, semaphore, result, listing_error>>

(* ------------------------- the detail tasks ---------------------------- *)
\* with_semaphore: async with semaphore is entered when a slot is free.
CanAcquire_ungated(slots) == TRUE
CanAcquire(slots) == slots > 0

\* retry: while attempt < max_attempts
RetryAgain_never(attempt) == FALSE
RetryAgain(attempt) == attempt < max_attempts

\* retry: return await function(...): an attempt that raised nothing ends
\* the retry loop.
RetryReturns_never(exc) == FALSE
RetryReturns(exc) == exc = None

\* with_semaphore: the slots after async with is left by an exception.
ReleasedOnRaise_leaks(slots) == slots
ReleasedOnRaise(slots) == slots + 1

\* with_page: the open pages after the attempt ended with exc (None: it
\* returned); page.close() is in a finally.
PagesAfterAttempt_no_finally(pages, exc) == IF exc = None THEN pages - 1 ELSE pages
PagesAfterAttempt(pages, exc) == pages - 1

\* post.comments after a comment is accepted: the comment is appended to the
\* local list, post.comments is not touched.
CommentsOnAccept_appends(visible, comment) == Append(visible, comment)
CommentsOnAccept(visible, comment) == visible

TaskSteps(t) == t \in DOMAIN tasks /\ spc # "done"

\* The attempt of task t raises e: with_page's finally is entered.
AttemptRaises(t, e) == [tasks[t] EXCEPT !.pc = "close", !.exc = e]

\* with_semaphore + retry: the slot is taken and the first attempt starts,
\* up to await browser.new_page().
TaskAcquire(t) ==
    /\ TaskSteps(t)
    /\ tasks[t].pc = "waiting"
    /\ CanAcquire(semaphore)
    /\ semaphore' = semaphore - 1
    /\ tasks' = [tasks EXCEPT ![t].pc = "newpage", ![t].attempt = 1]
    /\ UNCHANGED <<timeVars, site, open_pages, scrolled, slept, page, spc, posts, post_ids,
                   have_new_posts, tries, element_handles, post, result, stalled,
                   parsed, listing_error>>

\* with_page: the attempt's page is open; search_comments starts.
TaskNewPage(t) ==
    /\ TaskSteps(t)
    /\ tasks[t].pc = "newpage"
    /\ tasks' = [tasks EXCEPT ![t].pc = "goto"]
    /\ open_pages' = open_pages + 1
    /\ UNCHANGED <<timeVars, site, scrolled, slept, page, spc, posts, post_ids,
                   have_new_posts, tries, element_handles, post, semaphore, result,
                   stalled, parsed, listing_error>>

\* search_comments: await page.goto(...), then the locals are set.
TaskGoto(t) ==
    /\ TaskSteps(t)
    /\ tasks[t].pc = "goto"
    /\ \/ tasks' = [tasks EXCEPT ![t] =
                          [post |-> @.post, pc |-> "loop", attempt |-> @.attempt,
                           exc |-> None, assigned |-> @.assigned] @@
                          [NoLocals EXCEPT !.page = [feed |-> site.comments, shown |-> 0]]]
       \/ tasks' = [tasks EXCEPT ![t] =
                          [AttemptRaises(t, SurfaceError) EXCEPT !.timed_out = "page"]]
    /\ UNCHANGED <<timeVars, site, open_pages, scrolled, slept, page, spc, posts, post_ids,
                   have_new_posts, tries, element_handles, post, semaphore, result,
                   stalled, parsed, listing_error>>

\* search_comments: the loop condition holds; the head of the iteration,
\* element_handles() and the slice element_handles[len(comments):].
TaskIterate(t) ==
    /\ TaskSteps(t)
    /\ tasks[t].pc = "loop"
    /\ LoopContinues(tasks[t].have_new_comments, tasks[t].tries)
    /\ LET head == [tasks[t] EXCEPT !.have_new_comments = FALSE,
                                    !.tries = @ + 1,
                                    !.stalled = @ + 1]
       IN \/ \E n \in head.page.shown..Len(head.page.feed) :
                tasks' = [tasks EXCEPT ![t] =
                             [head EXCEPT !.page.shown = n,
                                          !.element_handles = SliceFrom(Len(head.comments), n),
                                          !.scrolled = FALSE,
                                          !.slept = FALSE,
                                          !.timed_out = None,
                                          !.pc = "elems"]]
          \/ tasks' = [tasks EXCEPT ![t] = [head EXCEPT !.pc = "close",
                                                        !.exc = SurfaceError,
                                                        !.timed_out = "page"]]
    /\ UNCHANGED <<timeVars, site, open_pages, scrolled, slept, page, spc, posts, post_ids,
                   have_new_posts, tries, element_handles, post, semaphore, result,
                   stalled, parsed, listing_error>>

\* search_comments: one turn of the for loop.
TaskElement(t) ==
    /\ TaskSteps(t)
    /\ tasks[t].pc = "elems"
    /\ tasks[t].element_handles # <<>>
    /\ LET self == tasks[t]
           handle == Head(self.element_handles)
           raw == self.page.feed[handle]
       IN \/ /\ tasks' = [tasks EXCEPT ![t] =
                             [AttemptRaises(t, SurfaceError) EXCEPT !.scrolled = TRUE,
                                                                    !.timed_out = "page"]]
             /\ UNCHANGED posts
          \/ \E outcome \in ParseCommentOutcomes(raw, handle) :
               LET r == stop_raise(outcome)
                   timeout == IF outcome.exc = SurfaceError THEN "parse_comment" ELSE None
                   next == [self EXCEPT !.comment = r.value,
                                        !.element_handles = Tail(@),
                                        !.scrolled = TRUE,
                                        !.timed_out = timeout]
               IN
               IF r.exc # None
               THEN /\ tasks' = [tasks EXCEPT ![t] =
                                    [AttemptRaises(t, r.exc) EXCEPT !.scrolled = TRUE,
                                                                    !.timed_out = timeout]]
                    /\ UNCHANGED posts
               ELSE IF r.value = Nothing \/ IsDuplicate(r.value[1].id, self.comment_ids)
               THEN /\ tasks' = [tasks EXCEPT ![t] = next]
                    /\ UNCHANGED posts
               ELSE /\ tasks' = [tasks EXCEPT ![t] =
                                    [next EXCEPT !.tries = 0,
                                                 !.stalled = 0,
                                                 !.have_new_comments = TRUE,
                                                 !.comment_ids = @ \cup {r.value[1].id},
                                                 !.comments = Append(@, r.value[1])]]
                    /\ posts' = [posts EXCEPT ![self.post].comments =
                                                  CommentsOnAccept(@, r.value[1])]
    /\ UNCHANGED <<timeVars, site, open_pages, scrolled, slept, page, spc, post_ids,
                   have_new_posts, tries, element_handles, post, semaphore, result,
                   stalled, parsed, listing_error>>

\* search_comments: the for loop is over; await asyncio.sleep(...).
TaskSleep(t) ==
    /\ TaskSteps(t)
    /\ tasks[t].pc = "elems"
    /\ tasks[t].element_handles = <<>>
    /\ tasks' = [tasks EXCEPT ![t].pc = "loop",
                              ![t].slept = DelayElapsed(tasks[t].scrolled),
                              ![t].timed_out = None]
    /\ UNCHANGED <<timeVars, site, open_pages, scrolled, slept, page, spc, posts, post_ids,
                   have_new_posts, tries, element_handles, post, semaphore, result,
                   stalled, parsed, listing_error>>

\* search_comments: the loop condition fails; post.comments = comments;
\* return; with_page's finally is entered.
TaskLoopExit(t) ==
    /\ TaskSteps(t)
    /\ tasks[t].pc = "loop"
    /\ ~LoopContinues(tasks[t].have_new_comments, tasks[t].tries)
    /\ posts' = [posts EXCEPT ![tasks[t].post].comments = tasks[t].comments]
    /\ tasks' = [tasks EXCEPT ![t].pc = "close", ![t].assigned = @ + 1]
    /\ UNCHANGED <<timeVars, site, open_pages, scrolled, slept, page, spc, post_ids,
                   have_new_posts, tries, element_handles, post, semaphore, result,
                   stalled, parsed, listing_error>>

\* with_page: finally: await page.close().  Then the attempt's result
\* reaches retry: a return leaves retry and with_semaphore; an exception
\* starts the next attempt, or is raised out of both when none is left.
TaskClose(t) ==
    /\ TaskSteps(t)
    /\ tasks[t].pc = "close"
    /\ open_pages' = PagesAfterAttempt(open_pages, tasks[t].exc)
    /\ LET self == tasks[t] IN
       IF RetryReturns(self.exc)
       THEN /\ tasks' = [tasks EXCEPT ![t] = [post |-> self.post, pc |-> "done",
                                              attempt |-> 0, exc |-> None,
                                              assigned |-> self.assigned] @@ NoLocals]
            /\ semaphore' = semaphore + 1
       ELSE IF RetryAgain(self.attempt)
       THEN /\ tasks' = [tasks EXCEPT ![t] = [post |-> self.post, pc |-> "newpage",
                                              attempt |-> self.attempt + 1,
                                              exc |-> self.exc,
                                              assigned |-> self.assigned] @@ NoLocals]
            /\ UNCHANGED semaphore
       ELSE /\ tasks' = [tasks EXCEPT ![t] = [post |-> self.post, pc |-> "failed",
                                              attempt |-> 0, exc |-> self.exc,
                                              assigned |-> self.assigned] @@ NoLocals]
            /\ semaphore' = ReleasedOnRaise(semaphore)
    /\ UNCHANGED <<timeVars, site, scrolled, slept, page, spc, posts, post_ids,
                   have_new_posts, tries, element_handles, post, result, stalled,
                   parsed, listing_error>>

(* -------------------------- specification ------------------------------ *)
SearchStep ==
    \/ SearchGoto
    \/ SearchIterate
    \/ SearchElement
    \/ SearchSleep
    \/ SearchLoopExit

TaskStep(t) ==
    \/ TaskAcquire(t)
    \/ TaskNewPage(t)
    \/ TaskGoto(t)
    \/ TaskIterate(t)
    \/ TaskElement(t)
    \/ TaskSleep(t)
    \/ TaskLoopExit(t)
    \/ TaskClose(t)

Next ==
    \/ RunNewPage
    \/ SearchStep
    \/ SearchJoin
    \/ RunClose
    \/ \E t \in 1..MaxRawPosts : TaskStep(t)

Spec == Init /\ [][Next]_vars

\* The event loop runs a coroutine that is ready: a run does not stop while
\* some step of search or of a task can be taken.
SpecLive == Spec /\ WF_vars(Next)

(* ------------------- to_isoformat called on its own -------------------- *)
\* RedditScrapper.to_isoformat(value): a static method, called here outside
\* any run of the scrapper.
ToIsoformat ==
    /\ normalized = NoResult
    /\ normalized' = LET iso == to_isoformat(value)
                     IN  IF iso.exc # None THEN Raised(iso.exc) ELSE Returned(iso.value[1])
    /\ UNCHANGED <<value, site, open_pages, scrolled, slept, page, spc, SearchLocals, semaphore, result, listing_error>>

InitTime ==
    /\ site \in Sites
    /\ page = BlankPage
    /\ spc = "newpage"
    /\ posts = <<>>
    /\ post_ids = {}
    /\ tasks = <<>>
    /\ have_new_posts = TRUE
    /\ tries = 0
    /\ element_handles = <<>>
    /\ post = Nothing
    /\ semaphore = MAX_CONCURRENT_TASK
    /\ result = NoResult
    /\ stalled = 0
    /\ parsed = {}
    /\ listing_error = FALSE
    /\ scrolled = FALSE
    /\ slept = FALSE
    /\ open_pages = 0
    /\ value \in TimeStrings
    /\ normalized = NoResult

NextTime == ToIsoformat

SpecTime == InitTime /\ [][NextTime]_vars

TypeOK ==
    /\ spc \in {"newpage", "goto", "loop", "elems", "join", "close", "done"}
    /\ Len(posts) = Len(tasks)
    /\ semaphore \in 0..MAX_CONCURRENT_TASK

(* ----------------------------- properties ------------------------------ *)
\* A task is active from the moment it enters "async with semaphore" until
\* it leaves it.
Active(t) == t.pc \in {"newpage", "goto", "loop", "elems", "close"}
ActiveTasks == {t \in DOMAIN tasks : Active(tasks[t])}

Handles(seq) == [i \in DOMAIN seq |-> seq[i].handle]
Increasing(seq) == \A i, j \in DOMAIN seq : i < j => seq[i] < seq[j]
Distinct(seq) == \A i, j \in DOMAIN seq : i # j => seq[i] # seq[j]

\* C1: at most MAX_CONCURRENT_TASK detail fetches are past the semaphore
\* gate at any time, and every one that is past it holds one of the slots.
C1_ConcurrencyBound ==
    /\ Cardinality(ActiveTasks) <= MAX_CONCURRENT_TASK
    /\ semaphore + Cardinality(ActiveTasks) = MAX_CONCURRENT_TASK

\* C1 witness: a fetch is running on its page while another one, already
\* created, is held at the gate.
C1_Witness ==
    \E t, u \in DOMAIN tasks :
        /\ tasks[t].pc = "elems"
        /\ tasks[u].pc = "waiting"

\* C2: a detail fetch whose attempts have all failed leaves the listing pass
\* and search untouched: search, once its listing loop is over, never
\* raises, and the list it returns holds the post with no comments.
C2_ExhaustedRetriesIsolated ==
    /\ [](result.kind = "return" =>
            \A t \in DOMAIN tasks :
                tasks[t].pc = "failed" =>
                    /\ tasks[t].post \in DOMAIN result.value
                    /\ result.value[tasks[t].post].comments = <<>>)
    /\ [][(\E t \in DOMAIN tasks : tasks[t].pc # "failed" /\ tasks'[t].pc = "failed")
            => (spc' = spc /\ result' = result /\ posts' = posts)]_vars
    /\ [][spc = "join" => result'.kind # "raise"]_vars

\* C2 witness: search has returned and one of its fetches had failed on all
\* three attempts.
C2_Witness ==
    /\ spc = "done"
    /\ result.kind = "return"
    /\ \E t \in DOMAIN tasks : tasks[t].pc = "failed" /\ tasks[t].exc = SurfaceError

\* C3: when search returns its list, every task it created has settled.
C3_JoinBeforeReturn ==
    result.kind = "return" => \A t \in DOMAIN tasks : tasks[t].pc \in {"done", "failed"}

\* C3 witness: search has returned with several tasks created, one of which
\* succeeded and one of which failed.
C3_Witness ==
    /\ result.kind = "return"
    /\ \E t, u \in DOMAIN tasks : tasks[t].pc = "done" /\ tasks[u].pc = "failed"

\* C4: no two accepted posts share (subreddit, id), and no two comments
\* accepted by one detail pagination (or attached to one post) share an id.
C4_NoDuplicateKeys ==
    /\ Distinct([i \in DOMAIN posts |-> PostKey(posts[i])])
    /\ \A i \in DOMAIN posts : Distinct([k \in DOMAIN posts[i].comments |-> posts[i].comments[k].id])
    /\ \A t \in DOMAIN tasks : Distinct([k \in DOMAIN tasks[t].comments |-> tasks[t].comments[k].id])

\* C4 witness: in a later reveal attempt the listing loop has parsed again an
\* element whose post is already accepted, and has two posts accepted.
C4_Witness ==
    /\ spc = "elems"
    /\ stalled >= 1
    /\ post # Nothing
    /\ \E i \in DOMAIN posts : posts[i].handle = post[1].handle
    /\ Len(posts) >= 2

\* C5: a pagination loop ends exactly SCROLL_TRIES reveal attempts after the
\* attempt that accepted its last record: it never goes on beyond that, and
\* it is left only then.
C5_StallTermination ==
    /\ stalled <= SCROLL_TRIES
    /\ spc = "join" => stalled = SCROLL_TRIES
    /\ result.kind = "return" => stalled = SCROLL_TRIES
    /\ \A t \in DOMAIN tasks :
          /\ tasks[t].stalled <= SCROLL_TRIES
          /\ (tasks[t].pc = "close" /\ tasks[t].exc = None) => tasks[t].stalled = SCROLL_TRIES

\* C5 witness: the listing loop has ended after accepting posts, and a
\* detail loop has ended after accepting a comment.
C5_Witness ==
    /\ spc = "join"
    /\ Len(posts) >= 2
    /\ \E t \in DOMAIN tasks :
          /\ tasks[t].pc = "close"
          /\ tasks[t].exc = None
          /\ tasks[t].comments # <<>>

\* C6: the posts search returns, and the comments of each of them, are in
\* the order of the elements they were parsed from.
C6_OrderPreserved ==
    result.kind = "return" =>
        /\ Increasing(Handles(result.value))
        /\ \A i \in DOMAIN result.value : Increasing(Handles(result.value[i].comments))

\* C7: every accepted post has exactly one task, created in the step that
\* accepted it, and the posts, the tasks and the distinct keys parsed are
\* equally many, in every state and in the list search returns.
C7_OneTaskPerItem ==
    /\ Len(tasks) = Len(posts)
    /\ \A i \in DOMAIN posts : Cardinality({t \in DOMAIN tasks : tasks[t].post = i}) = 1
    /\ Len(posts) = Cardinality(parsed)
    /\ result.kind = "return" =>
          /\ Len(result.value) = Len(tasks)
          /\ Len(result.value) = Cardinality(parsed)

\* C7 witness: three raw posts with three keys were exposed and search has
\* returned three posts, having created three tasks.
C7_Witness ==
    /\ result.kind = "return"
    /\ page.shown = 3
    /\ Len(result.value) = 3
    /\ Len(tasks) = 3

\* C8: an exception of parse_post or parse_comment never leaves the loop it
\* was raised in (search does not raise it, no attempt of a task fails with
\* it), and the step in which a parse fails accepts nothing and leaves the
\* loop at the next element of the same slice.
C8_ParseFailureConfined ==
    /\ [](result.exc # ParseError /\ \A t \in DOMAIN tasks : tasks[t].exc # ParseError)
    /\ [][(spc = "elems" /\ element_handles' # element_handles /\ post' = Nothing)
            => /\ posts' = posts
               /\ tasks' = tasks
               /\ result' = result
               /\ spc' = "elems"
               /\ element_handles' = Tail(element_handles)]_vars
    /\ [][\A t \in DOMAIN tasks :
             (/\ tasks[t].pc = "elems"
              /\ tasks'[t].element_handles # tasks[t].element_handles
              /\ tasks'[t].comment = Nothing)
            => /\ tasks'[t].comments = tasks[t].comments
               /\ tasks'[t].attempt = tasks[t].attempt
               /\ tasks'[t].exc = None
               /\ tasks'[t].pc = "elems"
               /\ tasks'[t].element_handles = Tail(tasks[t].element_handles)
               /\ posts' = posts]_vars

\* C8 witness: in the listing loop the parse of the last element failed, a
\* post accepted earlier is kept, and the next element of the slice is due.
C8_Witness ==
    /\ spc = "elems"
    /\ post = Nothing
    /\ element_handles # <<>>
    /\ Head(element_handles) > Len(posts) + 1
    /\ Len(posts) >= 1

\* C9: once a page action of the listing pass has failed, search has raised:
\* it is not in its loop again and has returned no list.
C9_ListingFailureFatal ==
    listing_error => (result.kind = "raise" /\ spc \in {"close", "done"})

\* C9 witness: the listing pass failed after posts had been accepted, and
\* run has ended by raising.
C9_Witness ==
    /\ listing_error
    /\ spc = "done"
    /\ result.kind = "raise"
    /\ Len(posts) >= 2

\* C10: while search is in its listing pass one of its steps is enabled
\* whatever the tasks are doing; search waits for tasks only in the join.
C10_ListingNeverWaits ==
    /\ spc \in {"goto", "loop", "elems"} => ENABLED SearchStep
    /\ (spc = "join" /\ \E t \in DOMAIN tasks : tasks[t].pc \notin {"done", "failed"})
          => ~ENABLED SearchJoin

\* C10 witness: the listing loop is at an element while one task waits for
\* a slot and another is in a retry.
C10_Witness ==
    /\ spc = "elems"
    /\ element_handles # <<>>
    /\ \E t, u \in DOMAIN tasks :
          /\ tasks[t].pc = "waiting"
          /\ tasks[u].pc \in {"goto", "loop", "elems"}
          /\ tasks[u].attempt >= 2

(* ------------------------ to_isoformat (C11) --------------------------- *)
\* string is a whole timestamp followed by the n words of a timezone name.
IsTimestamp(string, n) ==
    /\ Len(string) = Len(Pattern) + n
    /\ \A i \in 1..Len(string) :
          string[i].k = IF i <= Len(Pattern) THEN Pattern[i] ELSE "z"

\* The instant a whole timestamp denotes.
Denoted(string) ==
    <<string[4].v[1], string[2].v[1], string[3].v[1],
      (string[5].v[1] % 12) + 12 * string[6].v[1],
      string[5].v[2], string[5].v[3]>>

\* C11, as claimed: to_isoformat called on a whole timestamp followed by one
\* trailing timezone token succeeds and returns the instant the timestamp
\* denotes.
C11_OneTrailingToken ==
    (normalized # NoResult /\ IsTimestamp(value, 1))
        => normalized = Returned(Denoted(value))

\* C11, amended: to_isoformat called on a whole timestamp followed by three
\* trailing tokens succeeds and returns the instant the timestamp denotes;
\* called on one followed by a single trailing token it raises.
C11_ThreeTrailingTokens ==
    /\ (normalized # NoResult /\ IsTimestamp(value, 3))
          => normalized = Returned(Denoted(value))
    /\ (normalized # NoResult /\ IsTimestamp(value, 1))
          => normalized.kind = "raise"

\* C11 witness: a timestamp of 5:30:00 PM followed by a timezone name of
\* three words has been normalised to 17:30:00 of its day.
C11_Witness ==
    /\ IsTimestamp(value, 3)
    /\ value[5].v = <<5, 30, 0>>
    /\ value[6].v = PM
    /\ normalized = Returned(<<2024, 1, 1, 17, 30, 0>>)

(* -------------------- the slice of an iteration (C12) ------------------ *)
\* C12, as claimed: the slice an iteration hands to the parser starts at the
\* length of the raw list the previous iteration read (page.shown before the
\* read), so that no raw element is handed to the parser twice in one
\* pagination run.
C12_SliceFromRawCount ==
    [][/\ (spc = "loop" /\ spc' = "elems")
             => element_handles' = SliceFrom(page.shown, page'.shown)
       /\ \A t \in DOMAIN tasks :
             (tasks[t].pc = "loop" /\ tasks'[t].pc = "elems")
                => tasks'[t].element_handles =
                       SliceFrom(tasks[t].page.shown, tasks'[t].page.shown)]_vars

(* ------------------------- the retries (C13) --------------------------- *)
\* C13: the detail fetch of an item makes at least one and at most
\* max_attempts attempts; an attempt after the first starts only when the
\* previous one has raised; a fetch that has settled starts no attempt; and
\* post.comments is assigned at most once in a run.
C13_AttemptsBounded ==
    /\ [](\A t \in DOMAIN tasks :
             /\ tasks[t].attempt \in 0..max_attempts
             /\ Active(tasks[t]) => tasks[t].attempt >= 1
             /\ tasks[t].assigned <= 1)
    /\ [][\A t \in DOMAIN tasks :
             /\ tasks'[t].attempt # tasks[t].attempt =>
                   \/ tasks[t].pc = "waiting" /\ tasks'[t].attempt = 1
                   \/ /\ tasks[t].pc = "close" /\ tasks[t].exc # None
                      /\ tasks'[t].attempt = tasks[t].attempt + 1
                   \/ Settled(tasks'[t]) /\ tasks[t].attempt \in 1..max_attempts
             /\ (tasks'[t].pc = "newpage" /\ tasks[t].pc = "close") => tasks[t].exc # None
             /\ Settled(tasks[t]) => tasks'[t] = tasks[t]]_vars

\* C13 witness: a fetch has succeeded at its third attempt and has assigned
\* its comments, once.
C13_Witness ==
    \E t \in DOMAIN tasks :
        /\ tasks[t].pc = "close"
        /\ tasks[t].exc = None
        /\ tasks[t].attempt = max_attempts
        /\ tasks[t].assigned = 1
        /\ posts[tasks[t].post].comments # <<>>

(* --------------------- the comments of a post (C14) -------------------- *)
\* C14: post.comments stays empty until an attempt of the post's fetch has
\* finished its whole pagination, and is from then on the list that attempt
\* accepted; what a failing attempt accepted is never visible on the post;
\* and every attempt starts with an empty list and an empty set of ids.
C14_CommentsOfOneAttempt ==
    /\ [](\A t \in DOMAIN tasks :
             LET self == tasks[t] IN
             /\ self.assigned = 0 => posts[self.post].comments = <<>>
             /\ (self.pc = "close" /\ self.exc = None)
                   => posts[self.post].comments = self.comments
             /\ self.pc \in {"waiting", "newpage", "goto", "failed"}
                   => (self.comments = <<>> /\ self.comment_ids = {})
             /\ self.pc = "failed" => posts[self.post].comments = <<>>)
    /\ [][\A t \in DOMAIN tasks :
             LET self == tasks[t] IN
             /\ posts'[self.post].comments # posts[self.post].comments
                   => /\ self.pc = "loop" /\ tasks'[t].pc = "close"
                      /\ tasks'[t].exc = None
                      /\ posts[self.post].comments = <<>>
                      /\ posts'[self.post].comments = self.comments
             /\ (self.pc = "goto" /\ tasks'[t].pc = "loop")
                   => (tasks'[t].comments = <<>> /\ tasks'[t].comment_ids = {})]_vars

\* C14 witness: after a failed attempt, a later attempt has finished its
\* pagination with two comments, which are now the post's comments.
C14_Witness ==
    \E t \in DOMAIN tasks :
        /\ tasks[t].pc = "close"
        /\ tasks[t].exc = None
        /\ tasks[t].attempt >= 2
        /\ Len(tasks[t].comments) = 2
        /\ posts[tasks[t].post].comments = tasks[t].comments

(* ------------------- timeouts in a detail fetch (C15) ------------------ *)
\* C15, as claimed: during a detail fetch, a timeout of any page action
\* (hover, wait for an element, scroll into view) makes the current attempt
\* fail.
C15_EveryTimeoutFailsAttempt ==
    \A t \in DOMAIN tasks :
        tasks[t].timed_out # None
            => (tasks[t].pc = "close" /\ tasks[t].exc = SurfaceError)

\* C15, amended: a timeout of goto, element_handles or
\* scroll_into_view_if_needed makes the current attempt fail, and the failed
\* attempt is followed by a new one on a new page while attempts remain; a
\* timeout of hover or wait_for_selector, which are awaited inside
\* parse_comment, only skips the comment and the attempt goes on.
C15_TimeoutOutsideParserFailsAttempt ==
    /\ [](\A t \in DOMAIN tasks :
             /\ tasks[t].timed_out = "page"
                   => (tasks[t].pc = "close" /\ tasks[t].exc = SurfaceError)
             /\ tasks[t].timed_out = "parse_comment"
                   => /\ tasks[t].pc = "elems" /\ tasks[t].exc = None
                      /\ tasks[t].comment = Nothing)
    /\ [][\A t \in DOMAIN tasks :
             (tasks[t].pc = "close" /\ tasks[t].exc # None /\ tasks'[t] # tasks[t])
                 => IF tasks[t].attempt < max_attempts
                    THEN /\ tasks'[t].pc = "newpage"
                         /\ tasks'[t].attempt = tasks[t].attempt + 1
                         /\ tasks'[t].page = BlankPage
                    ELSE tasks'[t].pc = "failed"]_vars

\* C15 witness: scroll_into_view_if_needed has timed out in a second
\* attempt, after a comment had been accepted, and the attempt is failing.
C15_Witness ==
    \E t \in DOMAIN tasks :
        /\ tasks[t].timed_out = "page"
        /\ tasks[t].pc = "close"
        /\ tasks[t].exc = SurfaceError
        /\ tasks[t].attempt = 2
        /\ tasks[t].comments # <<>>
        /\ tasks[t].scrolled

(* ------------------ reveal, delay and read (C16) ----------------------- *)
\* The step in which search, or task t, reads the element list.
SearchReads == spc = "loop" /\ spc' = "elems"
TaskReads(t) == tasks[t].pc = "loop" /\ tasks'[t].pc = "elems"

\* C16, as claimed: in every iteration of a pagination loop, the first one
\* and those without unseen elements included, a reveal command has been
\* issued and the delay has elapsed before the element list is read.
C16_RevealAndDelayBeforeRead ==
    [][/\ SearchReads => (scrolled /\ slept)
       /\ \A t \in DOMAIN tasks :
             TaskReads(t) => (tasks[t].scrolled /\ tasks[t].slept)]_vars

\* C16, amended: the first iteration of a pagination loop reads the element
\* list with no reveal command and no delay before it; a reveal command
\* (scroll_into_view_if_needed) is issued only for an element of the slice
\* just read, so an iteration whose slice is empty issues none; and the
\* delay elapses at the end of every iteration, hence before the read of
\* every iteration but the first.
C16_ReadThenRevealThenDelay ==
    [][/\ SearchReads =>
             LET first == have_new_posts /\ posts = <<>>
             IN  (slept <=> ~first) /\ (first => ~scrolled)
       /\ (scrolled' /\ ~scrolled) => (spc = "elems" /\ element_handles # <<>>)
       /\ (spc = "elems" /\ spc' = "loop") => (slept' /\ scrolled' = scrolled)
       /\ \A t \in DOMAIN tasks :
             LET self == tasks[t] IN
             /\ TaskReads(t) =>
                   LET first == self.have_new_comments /\ self.comments = <<>>
                   IN  (self.slept <=> ~first) /\ (first => ~self.scrolled)
             /\ (tasks'[t].scrolled /\ ~self.scrolled)
                   => (self.pc = "elems" /\ self.element_handles # <<>>)
             /\ (self.pc = "elems" /\ tasks'[t].pc = "loop")
                   => (tasks'[t].slept /\ tasks'[t].scrolled = self.scrolled)]_vars

\* C16 witness: an iteration of the listing loop had an empty slice and
\* issued no reveal command; its delay has elapsed and the loop is about to
\* read the list again, while a task is in the same position.
C16_Witness ==
    /\ spc = "loop"
    /\ LoopContinues(have_new_posts, tries)
    /\ slept
    /\ ~scrolled
    /\ \E t \in DOMAIN tasks :
          /\ tasks[t].pc = "loop"
          /\ LoopContinues(tasks[t].have_new_comments, tasks[t].tries)
          /\ tasks[t].slept
          /\ ~tasks[t].scrolled

(* ------------------------ the stall counter (C17) ---------------------- *)
\* C17: whenever the condition of a pagination loop is tested, tries is
\* between 0 and SCROLL_TRIES, and is 0 if the iteration just completed
\* accepted a record; the loop is left only with tries = SCROLL_TRIES and
\* after an iteration that accepted nothing.
C17_TriesBounded ==
    /\ spc = "loop" =>
          /\ tries \in 0..SCROLL_TRIES
          /\ stalled = 0 => tries = 0
    /\ spc = "join" => (tries = SCROLL_TRIES /\ stalled >= 1)
    /\ \A t \in DOMAIN tasks :
          /\ tasks[t].pc = "loop" =>
                /\ tasks[t].tries \in 0..SCROLL_TRIES
                /\ tasks[t].stalled = 0 => tasks[t].tries = 0
          /\ (tasks[t].pc = "close" /\ tasks[t].exc = None)
                => (tasks[t].tries = SCROLL_TRIES /\ tasks[t].stalled >= 1)

\* C17 witness: the listing loop tests its condition after an iteration
\* that accepted its second post, with tries back at 0, while a task has
\* left its loop with tries = SCROLL_TRIES.
C17_Witness ==
    /\ spc = "loop"
    /\ Len(posts) = 2
    /\ stalled = 0
    /\ tries = 0
    /\ posts[2].handle >= 2
    /\ \E t \in DOMAIN tasks :
          /\ tasks[t].pc = "close"
          /\ tasks[t].exc = None
          /\ tasks[t].tries = SCROLL_TRIES

(* --------------------------- progress (C18) ---------------------------- *)
\* C18, as claimed: every page stops exposing new elements and every page
\* action terminates, so every created fetch is admitted through the gate
\* and settles, and search returns: when the run has ended, search has
\* returned, every task has settled and every slot is free.
C18_RunEndsReturned ==
    spc = "done" =>
        /\ result.kind = "return"
        /\ \A t \in DOMAIN tasks : Settled(tasks[t])
        /\ semaphore = MAX_CONCURRENT_TASK

\* C18, amended: the run always ends and, unless a page action of the
\* listing pass has failed, it ends with search returned, every created fetch
\* settled and every slot free; a fetch settles only out of an attempt it
\* was admitted to, and releases its slot when it does, after a success and
\* after exhausted retries alike.
C18_FetchesSettleUnlessListingFails ==
    /\ <>(/\ spc = "done"
          /\ \/ listing_error
             \/ /\ result.kind = "return"
                /\ \A t \in DOMAIN tasks : Settled(tasks[t])
                /\ semaphore = MAX_CONCURRENT_TASK)
    /\ [][\A t \in DOMAIN tasks :
             (Settled(tasks'[t]) /\ ~Settled(tasks[t]))
                 => /\ tasks[t].pc = "close"
                    /\ tasks[t].attempt >= 1
                    /\ semaphore' = semaphore + 1]_vars

\* C18 witness: search has returned after one fetch exhausted its retries
\* and two fetches, admitted after it, succeeded; every slot is free.
C18_Witness ==
    /\ spc = "done"
    /\ result.kind = "return"
    /\ semaphore = MAX_CONCURRENT_TASK
    /\ Len(tasks) = 3
    /\ tasks[1].pc = "failed"
    /\ tasks[2].pc = "done"
    /\ tasks[3].pc = "done"

(* ------------------------- the open pages (C19) ------------------------ *)
\* The tasks whose current attempt has its page open.
OnPage(t) == t.pc \in {"goto", "loop", "elems", "close"}

\* C19: every attempt opens a page of its own and closes it when it ends,
\* after a success and after a failure; at most MAX_CONCURRENT_TASK + 1
\* pages are open at any time; and no detail page is open once search has
\* returned.
C19_PagesBounded ==
    /\ open_pages <= MAX_CONCURRENT_TASK + 1
    /\ open_pages =
          (IF spc \in {"goto", "loop", "elems", "join", "close"} THEN 1 ELSE 0)
          + Cardinality({t \in DOMAIN tasks : OnPage(tasks[t])})
    /\ \A t \in DOMAIN tasks : OnPage(tasks[t]) => Active(tasks[t])
    /\ result.kind = "return" =>
          /\ \A t \in DOMAIN tasks : ~OnPage(tasks[t])
          /\ open_pages = IF spc = "done" THEN 0 ELSE 1

\* C19 witness: the listing page and the page of a third attempt are open,
\* the pages of the two failed attempts are closed.
C19_Witness ==
    /\ spc = "elems"
    /\ open_pages = MAX_CONCURRENT_TASK + 1
    /\ \E t \in DOMAIN tasks : tasks[t].pc = "elems" /\ tasks[t].attempt = max_attempts

(* -------------------- tasks when search ends (C20) --------------------- *)
\* C20, as claimed: whenever search has finished, by returning or by
\* raising, and the listing page is closed, every task search created has
\* settled: none is waiting for a slot or running on an open page.
C20_AllSettledWhenSearchEnds ==
    (spc = "done" /\ result.kind \in {"return", "raise"})
        => \A t \in DOMAIN tasks : Settled(tasks[t])

====
